---- MODULE Spec2Model ----
(***************************************************************************)
(* Model of src/tcp_buffer_tuner.bpf.c: the TCP memory pressure evaluator  *)
(* tcp_nearly_out_of_memory() and the five fentry programs that use the    *)
(* process-wide flags under_memory_pressure, near_memory_pressure and      *)
(* near_memory_exhaustion.  Every connection runs its hook as a sequence   *)
(* of steps; each step performs at most one access to the shared flags or  *)
(* one event emission, so the interleavings of the model are those of the  *)
(* lock-free BPF programs running on different CPUs.                       *)
(***************************************************************************)
EXTENDS Integers, Sequences, FiniteSets, TLC

(* ------------------------------ bounds --------------------------------- *)

\* Largest value of the protocol's memory_allocated counter (quantum units).
MaxAllocated == 6

\* Largest current buffer size (sk_sndbuf / sk_rcvbuf) a connection reports.
MaxBuf == 76

\* The connections whose hooks may run concurrently.
Conns == {"c1", "c2"}

\* memory_allocated values: 3 is exactly 75% of a tier of 4, 6 of a tier of
\* 8, and each is above 75% of any smaller tier.
AllocatedValues == {3, MaxAllocated}

\* sk_sndbuf / sk_rcvbuf values: 75 is exactly 75% of a max of 100.
BufValues == {75, MaxBuf}

\* net->ipv4.sysctl_tcp_wmem / sysctl_tcp_rmem (low, default, max).
BufLimits == <<4, 16, 100>>

\* What a failed bpf_probe_read leaves in tcp_mem[] (still its initialiser).
ZeroMem == <<0, 0, 0>>

\* sysctl_mem as the probe finds it: ordered, unordered (synthetic) and
\* uninitialised (max tier zero) tables in page units, or unreadable.
Tables ==
    [readable : {TRUE}, mem : {<<1, 4, 8>>, <<1, 8, 4>>, <<1, 4, 0>>}]
        \cup {[readable |-> FALSE, mem |-> ZeroMem]}

\* Consistent settings of the accounting constants written by userspace.
EqualUnits ==
    [page_size |-> 4, page_shift |-> 2, quantum |-> 4, quantum_shift |-> 2]
CoarserPage ==
    [page_size |-> 4, page_shift |-> 2, quantum |-> 2, quantum_shift |-> 1]
CoarserQuantum ==
    [page_size |-> 2, page_shift |-> 1, quantum |-> 4, quantum_shift |-> 2]
AcctConfigs == {EqualUnits, CoarserPage, CoarserQuantum}

\* How the build executes a shift by a negative count (undefined in C): the
\* BPF runtime masks the count to the operand width, or the compiler drops
\* the shift.  Only builds that differ under configuration c are listed.
Builds(c) ==
    IF c.page_shift = c.quantum_shift THEN {"masked"}
                                      ELSE {"masked", "dropped"}

\* Stands for a 64-bit result outside the range of the model's integers (LONG_MIN
\* when an odd value is shifted left by 63): only its sign matters.
OutOfRange == -(2 ^ 30)

VARIABLES
    under_memory_pressure,   \* line 7
    near_memory_pressure,    \* line 8
    near_memory_exhaustion,  \* line 9
    conn_count,              \* line 10
    kernel_page_size,        \* line 13
    kernel_page_shift,       \* line 14
    sk_mem_quantum,          \* line 15
    sk_mem_quantum_shift,    \* line 16
    neg_shift,               \* the build's treatment of a negative shift count
    memory_allocated,        \* sk->sk_prot->memory_allocated->counter
    sysctl_mem,              \* sk->sk_prot->sysctl_mem: [readable, mem]
    pc,                      \* per connection: position of its running hook
    hook,                    \* per connection: which fentry program runs
    sk,                      \* per connection: the sock snapshot of the call
    allocated,               \* per connection: local of the evaluator (line 30)
    tcp_mem,                 \* per connection: local of the evaluator (line 31)
    limit_sk_mem_quantum,    \* per connection: local of the evaluator (line 40)
    ret,                     \* per connection: the evaluator's return value
    events,                  \* per connection: events sent by this invocation
    gate,                    \* per connection: what the entry check read
    interfered,              \* per connection: a flag changed under a monitor
    repeat,                  \* per connection: this call repeats the last one
    prev_events,             \* per connection: events of the repeated call
    was_stale,               \* the flags were wrong when the counters changed
    last_signal              \* the last signal of the memory subsystem

vars == <<under_memory_pressure, near_memory_pressure, near_memory_exhaustion,
          conn_count, kernel_page_size, kernel_page_shift, sk_mem_quantum,
          sk_mem_quantum_shift, neg_shift, memory_allocated, sysctl_mem, pc,
          hook, sk, allocated, tcp_mem, limit_sk_mem_quantum, ret, events,
          gate, interfered, repeat, prev_events, was_stale, last_signal>>

acct == <<kernel_page_size, kernel_page_shift, sk_mem_quantum,
          sk_mem_quantum_shift, neg_shift>>
env == <<memory_allocated, sysctl_mem>>
flags == <<near_memory_pressure, near_memory_exhaustion>>
locals == <<allocated, tcp_mem, limit_sk_mem_quantum>>
history == <<repeat, prev_events, was_stale, last_signal>>

(* --------------------------- pure helpers ------------------------------ *)

\* NEARLY_FULL(val, limit) of bpftune.bpf.h: strictly above 75% of limit.
NEARLY_FULL(val, limit) == 4 * val > 3 * limit

\* BPFTUNE_GROW_BY_QUARTER(val) of bpftune.bpf.h: val + val/4, truncating.
BPFTUNE_GROW_BY_QUARTER(val) == val + (val \div 4)

Pow2(n) == 2 ^ n

\* x <<= n on a long (lines 43-44).  With n < 0 the masked count 64 + n
\* moves the low -n bits of x to the top of the word and clears the rest.
ShiftLeft(x, n) ==
    IF n >= 0 THEN x * Pow2(n)
    ELSE IF neg_shift = "dropped" THEN x
    ELSE IF x % Pow2(-n) = 0 THEN 0 ELSE OutOfRange

\* x >>= n on a long (lines 46-47).  With n < 0 the masked count 64 + n
\* clears every threshold below 2^32.
ShiftRight(x, n) ==
    IF n >= 0 THEN x \div Pow2(n)
    ELSE IF neg_shift = "dropped" THEN x
    ELSE 0

\* Lines 40-47: the body of the conversion loop for one tier.
ConvertTier(v) ==
    IF kernel_page_size > v
      THEN ShiftLeft(v, kernel_page_shift - sk_mem_quantum_shift)
      ELSE IF kernel_page_size < v
             THEN ShiftRight(v, sk_mem_quantum_shift - kernel_page_shift)
             ELSE v

\* Lines 41-47: the count of the shift the loop body executes for one tier
\* (0 when it executes none).
TierShiftCount(v) ==
    IF kernel_page_size > v
      THEN kernel_page_shift - sk_mem_quantum_shift
      ELSE IF kernel_page_size < v
             THEN sk_mem_quantum_shift - kernel_page_shift
             ELSE 0

\* Lines 39-48: the three tiers, converted independently.
ConvertedTriple(m) ==
    << ConvertTier(m[1]), ConvertTier(m[2]), ConvertTier(m[3]) >>

\* Lines 55-57: proposal of the memory pressure event.
PressureNew(m) ==
    << BPFTUNE_GROW_BY_QUARTER(m[1]), BPFTUNE_GROW_BY_QUARTER(m[2]),
       BPFTUNE_GROW_BY_QUARTER(m[3]) >>

\* ExhaustionNew with the three assignments of lines 55-57 pasted in.
ExhaustionNewGrowsAll(m) ==
    << BPFTUNE_GROW_BY_QUARTER(m[1]), BPFTUNE_GROW_BY_QUARTER(m[2]),
       BPFTUNE_GROW_BY_QUARTER(m[3]) >>

\* Lines 68-70: proposal of the memory exhaustion event.
ExhaustionNew(m) == << m[1], m[2], BPFTUNE_GROW_BY_QUARTER(m[3]) >>

\* Lines 125-127 and 161-163: proposal of the buffer increase event.
BufferNew(m) == << m[1], m[2], BPFTUNE_GROW_BY_QUARTER(m[3]) >>

\* send_sysctl_event(sk, scenario, tunable, old, new, event): the record the
\* consumer receives.
SysctlEvent(scenario, tunable, old, new) ==
    [scenario_id |-> scenario, tunable |-> tunable, old |-> old, new |-> new]

\* EvalAborts without the zero test of line 36.
EvalAbortsOnHandlesOnly(handle, table) ==
    \/ handle = "no_prot"
    \/ ~table.readable

\* Lines 27-37: the checks that make the evaluator return false at once.
EvalAborts(handle, table) ==
    \/ handle = "no_prot"
    \/ ~table.readable
    \/ table.mem[3] = 0

\* Line 53 and line 66 on the evaluator's locals of connection p.
PressureTest(p)   == NEARLY_FULL(allocated[p], limit_sk_mem_quantum[p][2])
ExhaustionTest(p) == NEARLY_FULL(allocated[p], limit_sk_mem_quantum[p][3])

\* The sock of a connection whose hook is not running.
NoSock == [handle |-> "no_sk", buf |-> 0, limits |-> ZeroMem, locked |-> FALSE]

\* The sock snapshots a hook may be called with: sk is NULL, sk->sk_net.net
\* is NULL, sk->sk_prot is NULL, or all are present.  Fields that cannot be
\* reached keep their initialiser; the send monitor is only called on socks
\* that are not send-locked, the receive monitor sees SOCK_RCVBUF_LOCK.
SockSnapshots(h) ==
    {NoSock} \cup
    IF h = "tcp_init_sock"
      THEN { [NoSock EXCEPT !.handle = x] : x \in {"ok", "no_prot"} }
      ELSE { [NoSock EXCEPT !.handle = "no_net"] } \cup
           { [handle |-> x, buf |-> b, limits |-> BufLimits, locked |-> l] :
               x \in {"ok", "no_prot"}, b \in BufValues,
               l \in IF h = "tcp_rcv_space_adjust" THEN BOOLEAN ELSE {FALSE} }

\* The positions of a growth monitor between the start of its entry check
\* and the sending of its TCP_BUFFER_INCREASE event.
Gated(p) == hook[p] # "tcp_init_sock" /\ pc[p] \notin {"idle", "done"}

\* Connection w stores v into a shared flag whose value is old: if that
\* changes the flag, every growth monitor of another connection that is
\* between its entry check and its event has been interfered with.
Interfere(w, old, v) ==
    interfered' = [q \in Conns |->
                      IF old # v /\ q # w /\ Gated(q) THEN TRUE
                                                      ELSE interfered[q]]

Goto(p, l) == pc' = [pc EXCEPT ![p] = l]

(* ------------------------------- Init ---------------------------------- *)

\* The state after the programs are loaded and userspace has written the
\* accounting constants, for a set of accounting configurations.
InitIn(configs) ==
    /\ under_memory_pressure = FALSE
    /\ near_memory_pressure = FALSE
    /\ near_memory_exhaustion = FALSE
    /\ conn_count = 0
    /\ \E c \in configs :
          /\ kernel_page_size = c.page_size
          /\ kernel_page_shift = c.page_shift
          /\ sk_mem_quantum = c.quantum
          /\ sk_mem_quantum_shift = c.quantum_shift
          /\ neg_shift \in Builds(c)
    /\ memory_allocated \in AllocatedValues
    /\ sysctl_mem \in Tables
    /\ pc = [p \in Conns |-> "idle"]
    /\ hook = [p \in Conns |-> "tcp_init_sock"]
    /\ sk = [p \in Conns |-> NoSock]
    /\ allocated = [p \in Conns |-> 0]
    /\ tcp_mem = [p \in Conns |-> ZeroMem]
    /\ limit_sk_mem_quantum = [p \in Conns |-> ZeroMem]
    /\ ret = [p \in Conns |-> FALSE]
    /\ events = [p \in Conns |-> <<>>]
    /\ gate = [p \in Conns |-> "unread"]
    /\ interfered = [p \in Conns |-> FALSE]
    /\ repeat = [p \in Conns |-> FALSE]
    /\ prev_events = [p \in Conns |-> <<>>]
    /\ was_stale = FALSE
    /\ last_signal = "none"

\* The concurrent specification runs with the usual setting, in which the
\* accounting quantum is the page.
Init == InitIn({EqualUnits})

InitSeq == InitIn(AcctConfigs)

(* --------------------------- environment ------------------------------- *)

\* The transport stack allocates or frees memory, or the sysctl table is
\* rewritten or becomes (un)readable.
Environment ==
    /\ \E a \in AllocatedValues, t \in Tables :
          /\ <<a, t>> # <<memory_allocated, sysctl_mem>>
          /\ memory_allocated' = a
          /\ sysctl_mem' = t
    /\ UNCHANGED <<under_memory_pressure, flags, conn_count, acct, pc, hook,
                   sk, locals, ret, events, gate, interfered, repeat,
                   prev_events, last_signal>>

\* The flags as an evaluation of the current counters would leave them.
FlagsMatch(a, t) ==
    /\ near_memory_pressure = NEARLY_FULL(a, ConvertTier(t.mem[2]))
    /\ near_memory_exhaustion = NEARLY_FULL(a, ConvertTier(t.mem[3]))

\* The counters change while hooks are running.
EnvChange == Environment /\ UNCHANGED was_stale

\* The counters change between two hook invocations; was_stale records
\* whether that leaves the flags out of date.
EnvChangeSeq ==
    /\ \A q \in Conns : pc[q] = "idle"
    /\ Environment
    /\ was_stale' = ~FlagsMatch(memory_allocated', sysctl_mem')

(* ---------------------- Global pressure tracker ------------------------ *)

\* Lines 82-87.
bpftune_enter_memory_pressure ==
    /\ under_memory_pressure' = TRUE
    /\ last_signal' = "entered"
    /\ UNCHANGED <<flags, conn_count, acct, env, pc, hook, sk, locals, ret,
                   events, gate, interfered, repeat, prev_events, was_stale>>

\* bpftune_leave_memory_pressure that also resets the evaluator's flags.
LeavePressureResetsFlags ==
    /\ under_memory_pressure' = FALSE
    /\ near_memory_pressure' = FALSE
    /\ near_memory_exhaustion' = FALSE
    /\ last_signal' = "left"
    /\ UNCHANGED <<conn_count, acct, env, pc, hook, sk, locals, ret,
                   events, gate, interfered, repeat, prev_events, was_stale>>

\* Lines 89-94.
bpftune_leave_memory_pressure ==
    /\ under_memory_pressure' = FALSE
    /\ last_signal' = "left"
    /\ UNCHANGED <<flags, conn_count, acct, env, pc, hook, sk, locals, ret,
                   events, gate, interfered, repeat, prev_events, was_stale>>

(* ------------------------- hook entry checks --------------------------- *)

\* SndbufEntry without the near_memory_pressure operand of line 115.
SndbufEntryNoGate(s) ==
    IF s.handle \in {"no_sk", "no_net"}
      THEN [pc |-> "done", gate |-> "unread"]
      ELSE [pc |-> "entry_ne", gate |-> "half"]

\* Line 115 up to its third operand: !sk || !net || near_memory_pressure.
\* Where the send monitor goes next and what its entry check has read.
SndbufEntry(s) ==
    IF s.handle \in {"no_sk", "no_net"}
      THEN [pc |-> "done", gate |-> "unread"]
      ELSE IF near_memory_pressure
             THEN [pc |-> "done", gate |-> "closed"]
             ELSE [pc |-> "entry_ne", gate |-> "half"]

\* RcvbufEntry without the SOCK_RCVBUF_LOCK operand of line 150.
RcvbufEntryIgnoresLock(s) ==
    IF s.handle \in {"no_sk", "no_net"}
      THEN [pc |-> "done", gate |-> "unread"]
      ELSE IF near_memory_pressure
             THEN [pc |-> "done", gate |-> "closed"]
             ELSE [pc |-> "entry_ne", gate |-> "half"]

\* RcvbufEntry that also returns while under_memory_pressure is set.
RcvbufEntryUnderPressure(s) ==
    IF s.handle \in {"no_sk", "no_net"}
      THEN [pc |-> "done", gate |-> "unread"]
      ELSE IF s.locked
             THEN [pc |-> "done", gate |-> "unread"]
             ELSE IF near_memory_pressure \/ under_memory_pressure
                    THEN [pc |-> "done", gate |-> "closed"]
                    ELSE [pc |-> "entry_ne", gate |-> "half"]

\* Lines 147-150 up to the read of near_memory_pressure.
RcvbufEntry(s) ==
    IF s.handle \in {"no_sk", "no_net"}
      THEN [pc |-> "done", gate |-> "unread"]
      ELSE IF s.locked
             THEN [pc |-> "done", gate |-> "unread"]
             ELSE IF near_memory_pressure
                    THEN [pc |-> "done", gate |-> "closed"]
                    ELSE [pc |-> "entry_ne", gate |-> "half"]

\* InitSockEntry with the flag test of the growth monitors added.
InitSockEntryGated(s) ==
    IF s.handle = "no_sk" \/ near_memory_pressure \/ near_memory_exhaustion
      THEN [pc |-> "done", gate |-> "unread"]
      ELSE [pc |-> "eval", gate |-> "unread"]

\* Lines 175-176: the connection-creation hook calls the evaluator whenever
\* it has a sock, whatever the flags are.
InitSockEntry(s) ==
    IF s.handle = "no_sk" THEN [pc |-> "done", gate |-> "unread"]
                          ELSE [pc |-> "eval", gate |-> "unread"]

HookEntry(h, s) ==
    CASE h = "tcp_sndbuf_expand"    -> SndbufEntry(s)
      [] h = "tcp_rcv_space_adjust" -> RcvbufEntry(s)
      [] h = "tcp_init_sock"        -> InitSockEntry(s)

\* The kernel calls the instrumented function h on the sock s of connection
\* p: fresh locals (lines 22-23, 110, 142, 173), then the entry check.
Call(p, h, s) ==
    /\ hook' = [hook EXCEPT ![p] = h]
    /\ sk' = [sk EXCEPT ![p] = s]
    /\ allocated' = [allocated EXCEPT ![p] = 0]
    /\ tcp_mem' = [tcp_mem EXCEPT ![p] = ZeroMem]
    /\ limit_sk_mem_quantum' = [limit_sk_mem_quantum EXCEPT ![p] = ZeroMem]
    /\ ret' = [ret EXCEPT ![p] = FALSE]
    /\ events' = [events EXCEPT ![p] = <<>>]
    /\ interfered' = [interfered EXCEPT ![p] = FALSE]
    /\ pc' = [pc EXCEPT ![p] = HookEntry(h, s).pc]
    /\ gate' = [gate EXCEPT ![p] = HookEntry(h, s).gate]
    /\ UNCHANGED <<under_memory_pressure, flags, conn_count, acct, env>>

\* fentry/tcp_sndbuf_expand (lines 107-116).
bpftune_sndbuf_expand(p) ==
    /\ pc[p] = "idle"
    /\ \E s \in SockSnapshots("tcp_sndbuf_expand") :
          Call(p, "tcp_sndbuf_expand", s)
    /\ UNCHANGED history

\* fentry/tcp_rcv_space_adjust (lines 139-152).
bpftune_rcvbuf_adjust(p) ==
    /\ pc[p] = "idle"
    /\ \E s \in SockSnapshots("tcp_rcv_space_adjust") :
          Call(p, "tcp_rcv_space_adjust", s)
    /\ UNCHANGED history

\* fentry/tcp_init_sock (lines 170-178).
bpftune_tcp_init_sock(p) ==
    /\ pc[p] = "idle"
    /\ \E s \in SockSnapshots("tcp_init_sock") : Call(p, "tcp_init_sock", s)
    /\ UNCHANGED history

\* MonitorReadExhaustion with the flag read but left out of the condition.
MonitorSkipsExhaustion(p) ==
    /\ pc[p] = "entry_ne"
    /\ gate' = [gate EXCEPT ![p] =
                  IF near_memory_exhaustion THEN "closed" ELSE "open"]
    /\ Goto(p, IF NEARLY_FULL(sk[p].buf, sk[p].limits[3])
                 THEN "eval" ELSE "done")
    /\ UNCHANGED <<under_memory_pressure, flags, conn_count, acct, env, hook,
                   sk, locals, ret, events, interfered, history>>

\* Lines 115-121 and 151-157: the read of near_memory_exhaustion that ends
\* the entry check, then NEARLY_FULL(sndbuf, wmem[2]) on the sock snapshot.
MonitorReadExhaustion(p) ==
    /\ pc[p] = "entry_ne"
    /\ gate' = [gate EXCEPT ![p] =
                  IF near_memory_exhaustion THEN "closed" ELSE "open"]
    /\ Goto(p, IF near_memory_exhaustion THEN "done"
               ELSE IF NEARLY_FULL(sk[p].buf, sk[p].limits[3])
                      THEN "eval" ELSE "done")
    /\ UNCHANGED <<under_memory_pressure, flags, conn_count, acct, env, hook,
                   sk, locals, ret, events, interfered, history>>

(* ----------------------- tcp_nearly_out_of_memory ---------------------- *)

\* Lines 27-48: the checks that return false at once, the reads of the
\* counter (line 30) and of the threshold table (line 31), which a missing
\* sk_prot prevents, and the conversion loop.
EvalStart(p) ==
    /\ pc[p] = "eval"
    /\ IF sk[p].handle = "no_prot"
         THEN UNCHANGED <<allocated, tcp_mem>>
         ELSE /\ allocated' = [allocated EXCEPT ![p] = memory_allocated]
              /\ tcp_mem' = [tcp_mem EXCEPT ![p] = sysctl_mem.mem]
    /\ IF EvalAborts(sk[p].handle, sysctl_mem)
         THEN /\ Goto(p, "after_eval")
              /\ UNCHANGED limit_sk_mem_quantum
         ELSE /\ limit_sk_mem_quantum' =
                    [limit_sk_mem_quantum EXCEPT ![p] =
                         ConvertedTriple(sysctl_mem.mem)]
              /\ Goto(p, "pressure_check")
    /\ ret' = [ret EXCEPT ![p] = FALSE]
    /\ UNCHANGED <<under_memory_pressure, flags, conn_count, acct, env, hook,
                   sk, events, gate, interfered, history>>

\* EvalPressureCheck without the else branch of lines 62-63: a flag once
\* set stays set.
EvalPressureCheckKeeps(p) ==
    /\ pc[p] = "pressure_check"
    /\ IF PressureTest(p)
         THEN /\ events' = [events EXCEPT ![p] = Append(@,
                    SysctlEvent("TCP_MEM_PRESSURE", "TCP_BUFFER_TCP_MEM",
                                tcp_mem[p], PressureNew(tcp_mem[p])))]
              /\ Goto(p, "set_pressure")
         ELSE /\ Goto(p, "exhaustion_check")
              /\ UNCHANGED events
    /\ UNCHANGED <<under_memory_pressure, flags, conn_count, acct, env, hook,
                   sk, locals, ret, gate, interfered, history>>

\* Lines 53-60 and 62-63: the pressure tier test; the event is sent before
\* the flag is set, the false branch writes the flag at once.
EvalPressureCheck(p) ==
    /\ pc[p] = "pressure_check"
    /\ IF PressureTest(p)
         THEN /\ events' = [events EXCEPT ![p] = Append(@,
                    SysctlEvent("TCP_MEM_PRESSURE", "TCP_BUFFER_TCP_MEM",
                                tcp_mem[p], PressureNew(tcp_mem[p])))]
              /\ Goto(p, "set_pressure")
              /\ UNCHANGED <<flags, interfered>>
         ELSE /\ near_memory_pressure' = FALSE
              /\ Interfere(p, near_memory_pressure, FALSE)
              /\ Goto(p, "exhaustion_check")
              /\ UNCHANGED <<near_memory_exhaustion, events>>
    /\ UNCHANGED <<under_memory_pressure, conn_count, acct, env, hook, sk,
                   locals, ret, gate, history>>

\* EvalSetPressure followed by "else if" instead of the "if" of line 66.
EvalSetPressureSkipsMaxTier(p) ==
    /\ pc[p] = "set_pressure"
    /\ near_memory_pressure' = TRUE
    /\ Interfere(p, near_memory_pressure, TRUE)
    /\ Goto(p, "ret_np")
    /\ UNCHANGED <<under_memory_pressure, near_memory_exhaustion, conn_count,
                   acct, env, hook, sk, locals, ret, events, gate, history>>

\* Line 61.
EvalSetPressure(p) ==
    /\ pc[p] = "set_pressure"
    /\ near_memory_pressure' = TRUE
    /\ Interfere(p, near_memory_pressure, TRUE)
    /\ Goto(p, "exhaustion_check")
    /\ UNCHANGED <<under_memory_pressure, near_memory_exhaustion, conn_count,
                   acct, env, hook, sk, locals, ret, events, gate, history>>

\* Lines 66-73 and 75-76: the max tier test.
EvalExhaustionCheck(p) ==
    /\ pc[p] = "exhaustion_check"
    /\ IF ExhaustionTest(p)
         THEN /\ events' = [events EXCEPT ![p] = Append(@,
                    SysctlEvent("TCP_MEM_EXHAUSTION", "TCP_BUFFER_TCP_MEM",
                                tcp_mem[p], ExhaustionNew(tcp_mem[p])))]
              /\ Goto(p, "set_exhaustion")
              /\ UNCHANGED <<flags, interfered>>
         ELSE /\ near_memory_exhaustion' = FALSE
              /\ Interfere(p, near_memory_exhaustion, FALSE)
              /\ Goto(p, "ret_np")
              /\ UNCHANGED <<near_memory_pressure, events>>
    /\ UNCHANGED <<under_memory_pressure, conn_count, acct, env, hook, sk,
                   locals, ret, gate, history>>

\* EvalSetExhaustion that raises near_memory_pressure as well.
EvalSetExhaustionSetsBoth(p) ==
    /\ pc[p] = "set_exhaustion"
    /\ near_memory_exhaustion' = TRUE
    /\ near_memory_pressure' = TRUE
    /\ Interfere(p, near_memory_exhaustion, TRUE)
    /\ Goto(p, "ret_np")
    /\ UNCHANGED <<under_memory_pressure, conn_count, acct, env, hook, sk,
                   locals, ret, events, gate, history>>

\* Line 74.
EvalSetExhaustion(p) ==
    /\ pc[p] = "set_exhaustion"
    /\ near_memory_exhaustion' = TRUE
    /\ Interfere(p, near_memory_exhaustion, TRUE)
    /\ Goto(p, "ret_np")
    /\ UNCHANGED <<under_memory_pressure, near_memory_pressure, conn_count,
                   acct, env, hook, sk, locals, ret, events, gate, history>>

\* Line 79, left operand.  The flags are plain (non-volatile) globals written
\* without synchronisation: the build may reload near_memory_pressure from
\* memory or reuse the value this call has just stored.
EvalReturnPressure(p) ==
    /\ pc[p] = "ret_np"
    /\ \E v \in {near_memory_pressure, PressureTest(p)} :
          IF v THEN /\ ret' = [ret EXCEPT ![p] = TRUE]
                    /\ Goto(p, "after_eval")
               ELSE /\ Goto(p, "ret_ne")
                    /\ UNCHANGED ret
    /\ UNCHANGED <<under_memory_pressure, flags, conn_count, acct, env, hook,
                   sk, locals, events, gate, interfered, history>>

\* Line 79, right operand.
EvalReturnExhaustion(p) ==
    /\ pc[p] = "ret_ne"
    /\ \E v \in {near_memory_exhaustion, ExhaustionTest(p)} :
          ret' = [ret EXCEPT ![p] = v]
    /\ Goto(p, "after_eval")
    /\ UNCHANGED <<under_memory_pressure, flags, conn_count, acct, env, hook,
                   sk, locals, events, gate, interfered, history>>

(* ---------------------- after the evaluator returns -------------------- *)

\* MonitorTunable with the send monitor's tunable in both monitors.
MonitorTunableAlwaysWmem(h) == "TCP_BUFFER_TCP_WMEM"

\* The tunable a growth monitor reports (lines 129 and 164).
MonitorTunable(h) ==
    IF h = "tcp_sndbuf_expand" THEN "TCP_BUFFER_TCP_WMEM"
                               ELSE "TCP_BUFFER_TCP_RMEM"

\* AfterEval that does not repeat a proposal it has already sent.
AfterEvalOnce(p) ==
    /\ pc[p] = "after_eval"
    /\ IF hook[p] # "tcp_init_sock" /\ ~ret[p] /\ prev_events[p] = <<>>
         THEN events' = [events EXCEPT ![p] = Append(@,
                  SysctlEvent("TCP_BUFFER_INCREASE", MonitorTunable(hook[p]),
                              sk[p].limits, BufferNew(sk[p].limits)))]
         ELSE UNCHANGED events
    /\ Goto(p, "done")
    /\ UNCHANGED <<under_memory_pressure, flags, conn_count, acct, env, hook,
                   sk, locals, ret, gate, interfered, history>>

\* AfterEval in which the connection-creation hook uses the result as the
\* growth monitors do.
AfterEvalUsesResult(p) ==
    /\ pc[p] = "after_eval"
    /\ IF ~ret[p]
         THEN events' = [events EXCEPT ![p] = Append(@,
                  SysctlEvent("TCP_BUFFER_INCREASE", MonitorTunable(hook[p]),
                              sk[p].limits, BufferNew(sk[p].limits)))]
         ELSE UNCHANGED events
    /\ Goto(p, "done")
    /\ UNCHANGED <<under_memory_pressure, flags, conn_count, acct, env, hook,
                   sk, locals, ret, gate, interfered, history>>

\* AfterEval in which a monitor whose evaluator call failed gives up.
AfterEvalNeedsEvaluation(p) ==
    /\ pc[p] = "after_eval"
    /\ IF hook[p] # "tcp_init_sock" /\ ~ret[p] /\ tcp_mem[p][3] # 0
         THEN events' = [events EXCEPT ![p] = Append(@,
                  SysctlEvent("TCP_BUFFER_INCREASE", MonitorTunable(hook[p]),
                              sk[p].limits, BufferNew(sk[p].limits)))]
         ELSE UNCHANGED events
    /\ Goto(p, "done")
    /\ UNCHANGED <<under_memory_pressure, flags, conn_count, acct, env, hook,
                   sk, locals, ret, gate, interfered, history>>

\* Lines 122-130, 158-165 and 176: the monitors return if the evaluator
\* reported pressure and send TCP_BUFFER_INCREASE otherwise; the
\* connection-creation hook ignores the result.
AfterEval(p) ==
    /\ pc[p] = "after_eval"
    /\ IF hook[p] # "tcp_init_sock" /\ ~ret[p]
         THEN events' = [events EXCEPT ![p] = Append(@,
                  SysctlEvent("TCP_BUFFER_INCREASE", MonitorTunable(hook[p]),
                              sk[p].limits, BufferNew(sk[p].limits)))]
         ELSE UNCHANGED events
    /\ Goto(p, "done")
    /\ UNCHANGED <<under_memory_pressure, flags, conn_count, acct, env, hook,
                   sk, locals, ret, gate, interfered, history>>

\* return 0: the invocation is over and its stack frame is gone.
Return(p) ==
    /\ pc[p] = "done"
    /\ Goto(p, "idle")
    /\ hook' = [hook EXCEPT ![p] = "tcp_init_sock"]
    /\ sk' = [sk EXCEPT ![p] = NoSock]
    /\ allocated' = [allocated EXCEPT ![p] = 0]
    /\ tcp_mem' = [tcp_mem EXCEPT ![p] = ZeroMem]
    /\ limit_sk_mem_quantum' = [limit_sk_mem_quantum EXCEPT ![p] = ZeroMem]
    /\ ret' = [ret EXCEPT ![p] = FALSE]
    /\ events' = [events EXCEPT ![p] = <<>>]
    /\ gate' = [gate EXCEPT ![p] = "unread"]
    /\ interfered' = [interfered EXCEPT ![p] = FALSE]
    /\ repeat' = [repeat EXCEPT ![p] = FALSE]
    /\ prev_events' = [prev_events EXCEPT ![p] = <<>>]
    /\ UNCHANGED <<under_memory_pressure, flags, conn_count, acct, env,
                   was_stale, last_signal>>

\* The same instrumented function is called again on the same sock while
\* nothing it reads from the kernel has changed.
Reinvoke(p) ==
    /\ pc[p] = "done"
    /\ Call(p, hook[p], sk[p])
    /\ repeat' = [repeat EXCEPT ![p] = TRUE]
    /\ prev_events' = [prev_events EXCEPT ![p] = events[p]]
    /\ UNCHANGED <<was_stale, last_signal>>

Step(p) ==
    \/ bpftune_sndbuf_expand(p)
    \/ bpftune_rcvbuf_adjust(p)
    \/ bpftune_tcp_init_sock(p)
    \/ MonitorReadExhaustion(p)
    \/ EvalStart(p)
    \/ EvalPressureCheck(p)
    \/ EvalSetPressure(p)
    \/ EvalExhaustionCheck(p)
    \/ EvalSetExhaustion(p)
    \/ EvalReturnPressure(p)
    \/ EvalReturnExhaustion(p)
    \/ AfterEval(p)
    \/ Return(p)

\* Hooks of different connections run concurrently on different CPUs.
Next ==
    \/ EnvChange
    \/ \E p \in Conns : Step(p)

Spec == Init /\ [][Next]_vars

\* No hook is running on any connection.
Quiet == \A q \in Conns : pc[q] = "idle"

\* No other connection's hook is running.
Alone(p) == \A q \in Conns \ {p} : pc[q] = "idle"

\* One hook invocation at a time, each seeing one state of the memory
\* counters; the memory subsystem signals pressure between invocations.
NextSeq ==
    \/ EnvChangeSeq
    \/ Quiet /\ bpftune_enter_memory_pressure
    \/ Quiet /\ bpftune_leave_memory_pressure
    \/ \E p \in Conns : Alone(p) /\ (Step(p) \/ Reinvoke(p))

SpecSeq == InitSeq /\ [][NextSeq]_vars

(* ------------------------------ properties ---------------------------- *)

Range(s) == { s[i] : i \in DOMAIN s }

Monitors == {"tcp_sndbuf_expand", "tcp_rcv_space_adjust"}

\* Connection p takes the step that sends its TCP_BUFFER_INCREASE event.
EmitsIncrease(p) ==
    /\ pc[p] = "after_eval"
    /\ pc'[p] = "done"
    /\ Len(events'[p]) = Len(events[p]) + 1

SentIncrease(p) ==
    \E e \in Range(events[p]) : e.scenario_id = "TCP_BUFFER_INCREASE"

\* C1: an invocation of a growth monitor whose entry check has read
\* near_memory_pressure or near_memory_exhaustion as true has ended there:
\* it has sent no event of any kind and never called the evaluator,
\* whatever the sock, its buffers and the other connections do.
GatingAtEntry ==
    \A p \in Conns :
        gate[p] = "closed" =>
            /\ hook[p] \in Monitors
            /\ pc[p] = "done"
            /\ events[p] = <<>>
            /\ tcp_mem[p] = ZeroMem

\* C1 witness: a receive monitor with a nearly full, unlocked buffer that
\* passed the first flag and returned on near_memory_exhaustion.
GatingAtEntryWitness ==
    \E p \in Conns :
        /\ gate[p] = "closed"
        /\ hook[p] = "tcp_rcv_space_adjust"
        /\ NEARLY_FULL(sk[p].buf, sk[p].limits[3])
        /\ near_memory_exhaustion
        /\ ~near_memory_pressure

\* C2 as claimed: at every step that sends a TCP_BUFFER_INCREASE event both
\* flags are false, under every interleaving.
NoGrowthWhileFlagged ==
    [][\A p \in Conns :
          EmitsIncrease(p) =>
              ~near_memory_pressure /\ ~near_memory_exhaustion]_vars

\* C2 as amended: at every step that sends a TCP_BUFFER_INCREASE event both
\* flags are false, unless another connection has changed a flag since the
\* sending invocation began its entry check.
NoGrowthWhileFlaggedUnlessRaced ==
    [][\A p \in Conns :
          EmitsIncrease(p) /\ ~interfered[p] =>
              ~near_memory_pressure /\ ~near_memory_exhaustion]_vars

\* C2 witness: a monitor has sent its proposal undisturbed while the other
\* connection is inside the evaluator.
NoGrowthWhileFlaggedWitness ==
    \E p \in Conns, q \in Conns :
        /\ p # q
        /\ pc[p] = "done"
        /\ SentIncrease(p)
        /\ ~interfered[p]
        /\ pc[q] \in {"pressure_check", "set_pressure", "exhaustion_check",
                       "set_exhaustion", "ret_np", "ret_ne"}

\* The evaluator of connection p is about to run into one of its three
\* early returns.
AbortCase(p) ==
    /\ pc[p] = "eval"
    /\ \/ sk[p].handle = "no_prot"
       \/ ~sysctl_mem.readable
       \/ sysctl_mem.mem[3] = 0

\* C3: a pressure evaluation that meets an absent sk_prot, a failed probe of
\* the threshold table or a zero max tier returns false, sends no event and
\* leaves both flags as they were, true or false.
FailSafeNoOp ==
    [][\A p \in Conns :
          AbortCase(p) /\ pc'[p] # pc[p] =>
              /\ pc'[p] = "after_eval"
              /\ ret'[p] = FALSE
              /\ events'[p] = events[p]
              /\ near_memory_pressure' = near_memory_pressure
              /\ near_memory_exhaustion' = near_memory_exhaustion]_vars

\* C3 witness: an evaluation has aborted on a zero max tier and a flag set
\* by an earlier evaluation is still true.
FailSafeNoOpWitness ==
    \E p \in Conns :
        /\ pc[p] = "after_eval"
        /\ tcp_mem[p] # ZeroMem
        /\ tcp_mem[p][3] = 0
        /\ ret[p] = FALSE
        /\ events[p] = <<>>
        /\ near_memory_pressure
        /\ \A q \in Conns \ {p} : pc[q] = "idle"

\* The evaluator of connection p has passed its early returns, and the
\* positions at which both of its tier tests are behind it.
Evaluated(p) == tcp_mem[p][3] # 0
PastTests(p) == pc[p] \in {"ret_np", "ret_ne", "after_eval"}

\* The two tests as the claims state them, on the evaluator's locals.
AbovePressureTier(p) == 4 * allocated[p] > 3 * limit_sk_mem_quantum[p][2]
AboveMaxTier(p)      == 4 * allocated[p] > 3 * limit_sk_mem_quantum[p][3]

\* C4: when an evaluation that passed the early returns has run with no
\* other invocation under way, near_memory_pressure is exactly
\* 4*allocated > 3*tier[1] and near_memory_exhaustion exactly
\* 4*allocated > 3*tier[2] on the converted tiers, whatever the flags were
\* before; at 4*allocated = 3*tier the flag is false.
FlagRecomputation ==
    \A p \in Conns :
        (PastTests(p) \/ pc[p] = "done") /\ Evaluated(p) =>
            /\ near_memory_pressure = AbovePressureTier(p)
            /\ near_memory_exhaustion = AboveMaxTier(p)

\* C4 witness: the flags were out of date when the counters last changed,
\* and an evaluation at exactly 75% of the pressure tier has left
\* near_memory_pressure false.
FlagRecomputationWitness ==
    \E p \in Conns :
        /\ pc[p] = "done"
        /\ Evaluated(p)
        /\ 4 * allocated[p] = 3 * limit_sk_mem_quantum[p][2]
        /\ ~near_memory_pressure
        /\ was_stale

\* The events the claims expect of an evaluation of table old.
ExpectedPressureEvent(old) ==
    [scenario_id |-> "TCP_MEM_PRESSURE", tunable |-> "TCP_BUFFER_TCP_MEM",
     old |-> old,
     new |-> << old[1] + (old[1] \div 4), old[2] + (old[2] \div 4),
                old[3] + (old[3] \div 4) >>]
ExpectedExhaustionEvent(old) ==
    [scenario_id |-> "TCP_MEM_EXHAUSTION", tunable |-> "TCP_BUFFER_TCP_MEM",
     old |-> old, new |-> << old[1], old[2], old[3] + (old[3] \div 4) >>]

\* C5: an evaluation sends a TCP_MEM_PRESSURE event iff allocated is above
\* 75% of tier[1], carrying the page-unit table and each tier grown by a
\* truncated quarter, then a TCP_MEM_EXHAUSTION event iff allocated is above
\* 75% of tier[2], carrying the table with only the max tier grown; both are
\* tagged TCP_BUFFER_TCP_MEM and no new tier is below its old tier.
EvaluatorEvents ==
    \A p \in Conns :
        PastTests(p) =>
            /\ events[p] =
                  (IF Evaluated(p) /\ AbovePressureTier(p)
                     THEN <<ExpectedPressureEvent(tcp_mem[p])>> ELSE <<>>)
                  \o (IF Evaluated(p) /\ AboveMaxTier(p)
                        THEN <<ExpectedExhaustionEvent(tcp_mem[p])>>
                        ELSE <<>>)
            /\ \A e \in Range(events[p]) :
                  \A i \in 1..3 : e.new[i] >= e.old[i]

\* C5 witness: both events sent, the low tier of 1 page unchanged by the
\* truncated quarter and the max tier grown.
EvaluatorEventsWitness ==
    \E p \in Conns :
        /\ pc[p] = "after_eval"
        /\ Len(events[p]) = 2
        /\ events[p][1].new[1] = events[p][1].old[1]
        /\ events[p][2].new[2] = events[p][2].old[2]
        /\ events[p][2].new[3] > events[p][2].old[3]

\* C6: every TCP_BUFFER_INCREASE event is the last event of a growth
\* monitor, tagged TCP_BUFFER_TCP_WMEM by the send monitor and
\* TCP_BUFFER_TCP_RMEM by the receive monitor, carries the configured
\* limits and the limits with only the max grown by a truncated quarter,
\* and is sent only with the buffer above 75% of the max and after the
\* monitor's own evaluator call returned false.
GrowthProposal ==
    \A p \in Conns : \A i \in DOMAIN events[p] :
        events[p][i].scenario_id = "TCP_BUFFER_INCREASE" =>
            /\ i = Len(events[p])
            /\ pc[p] = "done"
            /\ hook[p] \in Monitors
            /\ events[p][i].tunable =
                  (IF hook[p] = "tcp_sndbuf_expand"
                     THEN "TCP_BUFFER_TCP_WMEM" ELSE "TCP_BUFFER_TCP_RMEM")
            /\ events[p][i].old = sk[p].limits
            /\ events[p][i].new =
                  << sk[p].limits[1], sk[p].limits[2],
                     sk[p].limits[3] + (sk[p].limits[3] \div 4) >>
            /\ 4 * sk[p].buf > 3 * sk[p].limits[3]
            /\ ret[p] = FALSE

\* C6 witness: a receive monitor has proposed growing a max of 100 to 125.
GrowthProposalWitness ==
    \E p \in Conns :
        /\ pc[p] = "done"
        /\ hook[p] = "tcp_rcv_space_adjust"
        /\ SentIncrease(p)
        /\ events[p][Len(events[p])].new = <<4, 16, 125>>

\* The hook of connection p has returned; it had a sock with all handles
\* and the threshold table is readable and initialised.
CompletedOnReadableTable(p) ==
    /\ pc[p] = "done"
    /\ sk[p].handle = "ok"
    /\ sysctl_mem.readable
    /\ sysctl_mem.mem[3] # 0

\* C7 as claimed: after any hook event on a sock with a readable table the
\* flags are those of the current memory occupancy.
SelfCorrectionByNextEvent ==
    \A p \in Conns :
        CompletedOnReadableTable(p) =>
            FlagsMatch(memory_allocated, sysctl_mem)

\* C7 as amended: the flags are those of the current occupancy after a
\* connection-creation event, and after a growth signal whose entry check
\* read both flags false on a buffer above 75% of its max.
SelfCorrectionByEvaluation ==
    \A p \in Conns :
        /\ CompletedOnReadableTable(p)
        /\ \/ hook[p] = "tcp_init_sock"
           \/ gate[p] = "open" /\ 4 * sk[p].buf > 3 * sk[p].limits[3]
        => FlagsMatch(memory_allocated, sysctl_mem)

\* C7 witness: the counters dropped under flags that were set, and a
\* connection-creation event has left both flags false, as they should be.
SelfCorrectionWitness ==
    \E p \in Conns :
        /\ CompletedOnReadableTable(p)
        /\ hook[p] = "tcp_init_sock"
        /\ was_stale
        /\ ~near_memory_pressure /\ ~near_memory_exhaustion
        /\ FlagsMatch(memory_allocated, sysctl_mem)

\* C8 as claimed: an invocation that repeats the previous one on the same
\* sock and the same counters sends every event the previous one sent.
NoDeduplication ==
    \A p \in Conns :
        pc[p] = "done" /\ repeat[p] =>
            Range(prev_events[p]) \subseteq Range(events[p])

\* C8 as amended: it does so unless it is a growth monitor whose entry
\* check read a flag as true.
NoDeduplicationUnlessGated ==
    \A p \in Conns :
        pc[p] = "done" /\ repeat[p] /\ gate[p] # "closed" =>
            Range(prev_events[p]) \subseteq Range(events[p])

\* C8 witness: a growth monitor has sent the same proposal twice in a row.
NoDeduplicationWitness ==
    \E p \in Conns :
        /\ pc[p] = "done"
        /\ repeat[p]
        /\ hook[p] \in Monitors
        /\ SentIncrease(p)
        /\ events[p] = prev_events[p]

\* The conversion of section 4.1: page units to quantum units by the
\* difference of the two shift exponents, left if the quantum is the finer
\* unit and right if it is the coarser.
UnitConvert(v) ==
    IF kernel_page_shift >= sk_mem_quantum_shift
      THEN v * 2 ^ (kernel_page_shift - sk_mem_quantum_shift)
      ELSE v \div 2 ^ (sk_mem_quantum_shift - kernel_page_shift)

\* C9: every tier is converted by the shift that the two units determine,
\* the same for the three tiers whatever their values, and is unchanged
\* when the units are equal.
ConversionByUnitsOnly ==
    \A p \in Conns :
        PastTests(p) /\ Evaluated(p) =>
            \A i \in 1..3 :
                limit_sk_mem_quantum[p][i] = UnitConvert(tcp_mem[p][i])

\* C10: when both tier tests of an evaluation are behind it, the pressure
\* event is there iff allocated is above 75% of tier[1], the exhaustion
\* event iff it is above 75% of tier[2], each whatever the other test gave,
\* and there are as many events as tests that fired.
IndependentChecks ==
    \A p \in Conns :
        PastTests(p) /\ Evaluated(p) =>
            /\ AbovePressureTier(p) <=>
                  \E e \in Range(events[p]) :
                      e.scenario_id = "TCP_MEM_PRESSURE"
            /\ AboveMaxTier(p) <=>
                  \E e \in Range(events[p]) :
                      e.scenario_id = "TCP_MEM_EXHAUSTION"
            /\ Len(events[p]) = (IF AbovePressureTier(p) THEN 1 ELSE 0)
                                 + (IF AboveMaxTier(p) THEN 1 ELSE 0)

\* C10 witness: the max tier test fired alone, on a table whose pressure
\* tier is above its max tier.
IndependentChecksWitness ==
    \E p \in Conns :
        /\ pc[p] = "after_eval"
        /\ Evaluated(p)
        /\ ~AbovePressureTier(p)
        /\ AboveMaxTier(p)
        /\ Len(events[p]) = 1
        /\ ~near_memory_pressure
        /\ near_memory_exhaustion

\* C11: an invocation of the receive monitor on a sock whose receive buffer
\* is locked by the operator ends at its entry check: it has sent no event,
\* has not entered the evaluator, and the step that ran its entry check
\* left near_memory_pressure and near_memory_exhaustion as they were,
\* whatever the buffer's fill level.
ReceiveLock ==
    [][\A p \in Conns :
          hook'[p] = "tcp_rcv_space_adjust" /\ sk'[p].locked =>
              /\ pc'[p] = "done"
              /\ events'[p] = <<>>
              /\ tcp_mem'[p] = ZeroMem
              /\ ret'[p] = FALSE
              /\ pc[p] = "idle" => UNCHANGED flags]_vars

\* C11 witness: a locked receive buffer above 75% of its max, both flags
\* false, and the receive monitor has returned without an event.
ReceiveLockWitness ==
    \E p \in Conns :
        /\ hook[p] = "tcp_rcv_space_adjust"
        /\ sk[p].locked
        /\ sk[p].handle = "ok"
        /\ NEARLY_FULL(sk[p].buf, sk[p].limits[3])
        /\ ~near_memory_pressure /\ ~near_memory_exhaustion
        /\ pc[p] = "done"
        /\ events[p] = <<>>

\* C12: under_memory_pressure is true after every 'entered pressure'
\* signal and false after every 'left pressure' signal, whatever it was
\* before and whatever hooks have run since (no hook writes it), and the
\* step that receives a signal changes nothing else: no event, no near_*
\* flag, not conn_count, not the accounting constants.
GlobalPressureTracker ==
    [][/\ under_memory_pressure' = (last_signal' = "entered")
       /\ last_signal' # last_signal
             \/ under_memory_pressure' # under_memory_pressure =>
             UNCHANGED <<flags, conn_count, acct, env, pc, hook, sk, locals,
                         ret, events, gate, interfered>>]_vars

\* C12 witness: the pressure signal has been received while both near_*
\* flags are set, and a later invocation has sent events under it.
GlobalPressureTrackerWitness ==
    /\ under_memory_pressure
    /\ last_signal = "entered"
    /\ near_memory_pressure /\ near_memory_exhaustion
    /\ \E p \in Conns : pc[p] = "done" /\ Len(events[p]) = 2

\* Connection p's hook is called, or called again, on a sock.
EntersWithSock(p) ==
    /\ pc[p] \in {"idle", "done"}
    /\ pc'[p] # pc[p]
    /\ sk'[p].handle \in {"ok", "no_prot"}

\* C13: a connection-creation event on a sock enters the evaluator whatever
\* the three flags are, leaves it once for the end of the hook without
\* sending anything more, never sends TCP_BUFFER_INCREASE, and with a
\* readable, initialised table ends with each flag equal to its test.
ConnectionCreationHook ==
    [][\A p \in Conns :
          hook'[p] = "tcp_init_sock" =>
              /\ EntersWithSock(p) => pc'[p] = "eval"
              /\ pc[p] = "after_eval" /\ pc'[p] # pc[p] =>
                    pc'[p] = "done" /\ events'[p] = events[p]
              /\ \A e \in Range(events'[p]) :
                    e.scenario_id # "TCP_BUFFER_INCREASE"
              /\ pc'[p] = "done" /\ sk'[p].handle = "ok"
                 /\ sysctl_mem'.readable /\ sysctl_mem'.mem[3] # 0 =>
                    /\ tcp_mem'[p] = sysctl_mem'.mem
                    /\ near_memory_pressure' =
                          (4 * memory_allocated' >
                               3 * limit_sk_mem_quantum'[p][2])
                    /\ near_memory_exhaustion' =
                          (4 * memory_allocated' >
                               3 * limit_sk_mem_quantum'[p][3])]_vars

\* C13 witness: with all three flags set, a connection-creation event has
\* run the evaluator, which found no pressure and cleared both near_* flags,
\* and the hook ended without a growth proposal.
ConnectionCreationHookWitness ==
    \E p \in Conns :
        /\ hook[p] = "tcp_init_sock"
        /\ pc[p] = "done"
        /\ under_memory_pressure
        /\ was_stale
        /\ tcp_mem[p][3] # 0
        /\ ret[p] = FALSE
        /\ events[p] = <<>>
        /\ ~near_memory_pressure /\ ~near_memory_exhaustion

\* Connection p has sent an event of the given scenario in this invocation.
Sent(p, scenario) ==
    \E e \in Range(events[p]) : e.scenario_id = scenario

\* C14: once an invocation has sent its TCP_MEM_PRESSURE event it has
\* already stored true into near_memory_pressure (it is past line 61), and
\* once it has sent its TCP_MEM_EXHAUSTION event it has already stored true
\* into near_memory_exhaustion (it is past line 74).
FlagBeforeEvent ==
    \A p \in Conns :
        /\ Sent(p, "TCP_MEM_PRESSURE") => pc[p] # "set_pressure"
        /\ Sent(p, "TCP_MEM_EXHAUSTION") => pc[p] # "set_exhaustion"

\* Connection p takes a step of its hook.
Moves(p) == pc'[p] # pc[p]

\* C15: each store into near_memory_pressure or near_memory_exhaustion is
\* made by one evaluation and stores the result of that evaluation's own
\* test, and the flags change by these stores only; so after concurrent
\* evaluations each flag holds the test result of the evaluation that
\* stored into it last, never a value that no evaluation wrote.
LastWriteWins ==
    [][/\ \A p \in Conns :
             /\ pc[p] = "set_pressure" /\ Moves(p) =>
                   near_memory_pressure' /\ AbovePressureTier(p)
             /\ pc[p] = "pressure_check" /\ pc'[p] = "exhaustion_check" =>
                   ~near_memory_pressure' /\ ~AbovePressureTier(p)
             /\ pc[p] = "set_exhaustion" /\ Moves(p) =>
                   near_memory_exhaustion' /\ AboveMaxTier(p)
             /\ pc[p] = "exhaustion_check" /\ pc'[p] = "ret_np" =>
                   ~near_memory_exhaustion' /\ ~AboveMaxTier(p)
       /\ near_memory_pressure' # near_memory_pressure =>
             \E p \in Conns :
                 /\ pc[p] \in {"pressure_check", "set_pressure"}
                 /\ Moves(p)
                 /\ near_memory_pressure' = AbovePressureTier(p)
       /\ near_memory_exhaustion' # near_memory_exhaustion =>
             \E p \in Conns :
                 /\ pc[p] \in {"exhaustion_check", "set_exhaustion"}
                 /\ Moves(p)
                 /\ near_memory_exhaustion' = AboveMaxTier(p)]_vars

\* C15 witness: two evaluations overlapped and disagreed on the pressure
\* tier; both are complete and near_memory_pressure holds the result of
\* one of them while the other, a growth monitor, saw a flag change under
\* it.
LastWriteWinsWitness ==
    \E p, q \in Conns :
        /\ p # q
        /\ pc[p] = "done" /\ pc[q] = "done"
        /\ Evaluated(p) /\ Evaluated(q)
        /\ AbovePressureTier(p) /\ ~AbovePressureTier(q)
        /\ interfered[q]
        /\ near_memory_pressure

\* The kernel calls connection p's hook on a sock that passes the null
\* checks and, for the receive monitor, the lock test.
CalledOnUsableSock(p) ==
    /\ pc[p] = "idle"
    /\ pc'[p] # "idle"
    /\ sk'[p].handle \in {"ok", "no_prot"}
    /\ ~sk'[p].locked

MonitorWentThrough(p) ==
    /\ hook[p] \in Monitors
    /\ pc[p] = "done"
    /\ gate[p] = "open"
    /\ 4 * sk[p].buf > 3 * sk[p].limits[3]

\* C17: a growth monitor that read both flags false at entry on a buffer
\* above 75% of its max, and whose evaluator call returned early (no
\* protocol handle, failed probe or zero max tier, in each of which the
\* max tier of its tcp_mem local is still 0), has sent exactly one event,
\* the TCP_BUFFER_INCREASE event.
EvaluatorFailureIsNoPressure ==
    \A p \in Conns :
        MonitorWentThrough(p) /\ tcp_mem[p][3] = 0 =>
            /\ Len(events[p]) = 1
            /\ events[p][1].scenario_id = "TCP_BUFFER_INCREASE"

\* C17 witness: the sock has no protocol handle while allocated memory is
\* above 75% of the table's max tier, and the send monitor has proposed
\* growth.
EvaluatorFailureIsNoPressureWitness ==
    \E p \in Conns :
        /\ MonitorWentThrough(p)
        /\ hook[p] = "tcp_sndbuf_expand"
        /\ sk[p].handle = "no_prot"
        /\ sysctl_mem.readable
        /\ sysctl_mem.mem[3] # 0
        /\ 4 * memory_allocated > 3 * sysctl_mem.mem[3]
        /\ SentIncrease(p)

\* C18: the value the evaluator returns is the disjunction of the two
\* tests of that same call, so an invocation of a growth monitor never
\* sends both a TCP_MEM_PRESSURE or TCP_MEM_EXHAUSTION event and a
\* TCP_BUFFER_INCREASE event.
SuppressionByOwnEvaluation ==
    \A p \in Conns :
        /\ pc[p] = "after_eval" /\ Evaluated(p) =>
              ret[p] = (AbovePressureTier(p) \/ AboveMaxTier(p))
        /\ ~(SentIncrease(p) /\ (Sent(p, "TCP_MEM_PRESSURE")
                                    \/ Sent(p, "TCP_MEM_EXHAUSTION")))

\* The threshold table the evaluator of connection p read is ordered.
OrderedTable(p) ==
    /\ 0 < tcp_mem[p][1]
    /\ tcp_mem[p][1] <= tcp_mem[p][2]
    /\ tcp_mem[p][2] <= tcp_mem[p][3]

\* C19: for an ordered table the converted pressure tier is at most the
\* converted max tier, so an evaluation that ran alone leaves no
\* near_memory_exhaustion without near_memory_pressure and sends no
\* TCP_MEM_EXHAUSTION event without a TCP_MEM_PRESSURE event.
ThresholdOrderPreserved ==
    \A p \in Conns :
        PastTests(p) /\ Evaluated(p) /\ OrderedTable(p) =>
            /\ limit_sk_mem_quantum[p][2] <= limit_sk_mem_quantum[p][3]
            /\ near_memory_exhaustion => near_memory_pressure
            /\ Sent(p, "TCP_MEM_EXHAUSTION") => Sent(p, "TCP_MEM_PRESSURE")

\* C20: every shift the conversion loop has executed had a count that is
\* not negative.
ShiftAmountsWellDefined ==
    \A p \in Conns :
        PastTests(p) /\ Evaluated(p) =>
            \A i \in 1..3 : TierShiftCount(tcp_mem[p][i]) >= 0

====
